---------------------------- MODULE Spec2Model ----------------------------
(***************************************************************************)
(* Model of Data_extract.py: main, process_files_in_parallel and          *)
(* process_file.                                                           *)
(*                                                                         *)
(* Characters are Unicode code points (integers), a text is a sequence of  *)
(* characters, a file system is a function from the names of the files    *)
(* that exist to their contents.  File contents are modelled on a POSIX   *)
(* host (os.linesep = "\n").                                               *)
(***************************************************************************)
EXTENDS Integers, Sequences, FiniteSets, TLC

VARIABLES
    \* ---- environment ----------------------------------------------------
    dirExists,            \* os.path.exists(folder_path)
    dirFiles,             \* xz_files_in_dir(folder_path), in listdir order
    shardRaw,             \* filename -> decompressed characters of the shard
    chunk_size,           \* characters asked of one infile.read
    fs,                   \* the files of the working directory: name -> text
    \* ---- main -----------------------------------------------------------
    mainpc,               \* position of main
    execs,                \* number of executions of main started so far
    files_train_sampled,
    files_val_sampled,
    train_chars,
    val_chars,
    \* ---- process_files_in_parallel ---------------------------------------
    runpc,                \* position of the run
    files,                \* the shard list of the run
    output_file,
    temp_dir,             \* TRUE while the TemporaryDirectory exists
    scratch,              \* the files of temp_dir: path -> text
    task,                 \* per list position: the process_file invocation
    results,
    mergeIdx,             \* number of results the merge loop has handled
    success_count,
    failure_count,
    all_chars,
    ret,                  \* value returned by the run
    \* ---- history (not read by any action guard) ---------------------------
    attempts,             \* per list position: process_file invocations
    okTrain,              \* per position of the train run: shard succeeded
    okVal,                \* per position of the validation run
    first                 \* snapshot at the end of the first execution

vars == <<dirExists, dirFiles, shardRaw, chunk_size, fs, mainpc, execs,
          files_train_sampled, files_val_sampled, train_chars, val_chars,
          runpc, files, output_file, temp_dir, scratch, task, results,
          mergeIdx, success_count, failure_count, all_chars, ret,
          attempts, okTrain, okVal, first>>

envVars  == <<dirExists, dirFiles, shardRaw, chunk_size>>
mainVars == <<mainpc, execs, files_train_sampled, files_val_sampled,
              train_chars, val_chars>>
histVars == <<okTrain, okVal, first>>

-----------------------------------------------------------------------------
(* Bounds of the model *)

MaxFiles  == 3      \* most shard files in the source directory (Spec)
MaxExec   == 2      \* executions of main in one behaviour
ChunkLen  == 2      \* characters per read, standing for 1024*1024
MaxChunk  == 3      \* largest read size tried where the size varies (SpecShards)

(* Program constants *)

max_workers == 4
RandLo      == 1000
split_pct   == 90     \* int(total_files * 0.9)
sample_pct  == 1      \* sample_rate = 0.01

CR == 13
LF == 10

folder_path       == "openwebtext"
output_file_train == "output_train.txt"
output_file_val   == "output_val.txt"
vocab_file        == "vocab.txt"
collect_vocab     == TRUE

None == <<>>

\* random.randint(1000, 9999), cut to its first value: the draw only names
\* the scratch file, and workers that draw the same number are the case in
\* which the number does not tell two scratch files apart.
Rands == {RandLo}

\* Longest shard list handed to one run in SpecRun: one more than the pool
\* has workers, so that a task waits while every worker is busy.
MaxShards == max_workers + 1

\* Shard contents the environment may hold: an empty shard, "ba", "a\r\nc".
Texts == << <<>>, <<98, 97>>, <<97, CR, LF, 99>> >>

Stale == <<120>>     \* "x": content left behind by an earlier program run

-----------------------------------------------------------------------------
(* Text I/O *)

Min(a, b) == IF a <= b THEN a ELSE b
Max(a, b) == IF a >= b THEN a ELSE b

\* Reading in text mode with newline=None: "\r\n" and "\r" become "\n".
RECURSIVE ReadText(_)
ReadText(s) ==
    IF s = <<>> THEN <<>>
    ELSE IF Head(s) = CR
         THEN IF Len(s) >= 2 /\ s[2] = LF
              THEN <<LF>> \o ReadText(SubSeq(s, 3, Len(s)))
              ELSE <<LF>> \o ReadText(Tail(s))
         ELSE <<Head(s)>> \o ReadText(Tail(s))

\* Writing in text mode with newline=None: "\n" becomes os.linesep.
LineSep == <<LF>>
RECURSIVE WriteText(_)
WriteText(s) ==
    IF s = <<>> THEN <<>>
    ELSE (IF Head(s) = LF THEN LineSep ELSE <<Head(s)>>) \o WriteText(Tail(s))

\* set(chunk)
CharSet(s) == {s[k] : k \in 1..Len(s)}

\* What lzma.open(file_path, "rt") yields over the whole shard.
Decoded(filename) == ReadText(shardRaw[filename])

\* infile.read(1024*1024) with pos characters already consumed.
ReadChunk(filename, pos) ==
    SubSeq(Decoded(filename), pos + 1, Min(pos + chunk_size, Len(Decoded(filename))))

\* Mutant: the name is built from the pid and the number alone.
TempOutput_NoFilename(pid, rnd, filename) == <<pid, rnd, 0>>

\* The pid has no "_" and the number has four digits, so the three parts can
\* be read back from the name: the name is the triple.
\* os.path.join(temp_dir, f"{pid}_{random}_{filename}.txt")
TempOutput(pid, rnd, filename) == <<pid, rnd, filename>>

\* os.getpid() of pool worker w: distinct processes, distinct pids.
Pid(w) == w

Workers == 1..max_workers

\* f with name mapped to text (created when absent).
PutFile(f, name, text) == (name :> text) @@ f


EmptyDir == [p \in {} |-> <<>>]

-----------------------------------------------------------------------------
(* process_file: one invocation per list position, run by a pool worker *)

PendingTask == [st |-> "pending", w |-> 0, path |-> None, pos |-> 0,
                chars |-> {}, result |-> None]

\* return temp_output, chars
SuccessResult(t) == <<t.path, t.chars>>

\* Mutant: the except branch returns what the try branch returns.
FailureResult_KeepsPath(t) == <<t.path, t.chars>>

\* except Exception: return None, set()
FailureResult(t) == <<None, {}>>

Returned(t, st, res) == [st |-> st, w |-> 0, path |-> None, pos |-> 0,
                         chars |-> {}, result |-> res]

N == Len(files)

Running  == {i \in 1..N : task[i].st = "running"}

\* Mutant: a failed task whose result is not yet collected is queued again.
Pending_WithFailed ==
    {i \in 1..N : \/ task[i].st = "pending"
                  \/ task[i].st = "failed" /\ i > Len(results)}

Pending  == {i \in 1..N : task[i].st = "pending"}
Finished == {i \in 1..N : task[i].st \in {"ok", "failed"}}

\* Mutant: a busy worker is handed the next task.
Idle_Always(w) == TRUE

Idle(w)  == \A i \in Running : task[i].w # w

\* The pool hands out work items in submission order.
NextPending == CHOOSE i \in Pending : \A j \in Pending : i <= j

\* Worker w has left its pid in the name of a scratch file.
Used(w) == \E p \in DOMAIN scratch : p[1] = Pid(w)

\* Any idle worker may take the next task.  Workers whose pid appears nowhere
\* in the state are interchangeable, so of those only the lowest is tried.
MayTake(w) ==
    /\ Idle(w)
    /\ Used(w) \/ \A v \in Workers : ~Used(v) => w <= v

\* Lines 24-33: a free worker takes the next task; both files open.
StartWorker(w, rnd) ==
    /\ runpc = "dispatching"
    /\ Pending # {}
    /\ MayTake(w)
    /\ LET i == NextPending
           p == TempOutput(Pid(w), rnd, files[i])
       IN /\ task' = [task EXCEPT ![i] =
                        [st |-> "running", w |-> w, path |-> p, pos |-> 0,
                         chars |-> {}, result |-> None]]
          /\ scratch' = PutFile(scratch, p, <<>>)
          /\ attempts' = [attempts EXCEPT ![i] = @ + 1]
    /\ UNCHANGED <<envVars, mainVars, histVars, fs, runpc, files, output_file,
                   temp_dir, results, mergeIdx, success_count, failure_count,
                   all_chars, ret>>

\* Lines 24-32, 43-46: a free worker takes the next task and lzma.open or the
\* open of the scratch file raises: no scratch file is created.
StartWorkerOpenFails(w) ==
    /\ runpc = "dispatching"
    /\ Pending # {}
    /\ MayTake(w)
    /\ LET i == NextPending
       IN /\ task' = [task EXCEPT ![i] =
                        Returned(@, "failed", FailureResult(@))]
          /\ attempts' = [attempts EXCEPT ![i] = @ + 1]
    /\ UNCHANGED <<envVars, mainVars, histVars, fs, runpc, files, output_file,
                   temp_dir, scratch, results, mergeIdx, success_count,
                   failure_count, all_chars, ret>>

\* Mutant: chars = set(chunk) in place of chars.update(set(chunk)).
WriteChunk_ReplacesChars(i) ==
    /\ runpc = "dispatching"
    /\ i \in Running
    /\ LET chunk == ReadChunk(files[i], task[i].pos)
       IN /\ chunk # <<>>
          /\ scratch' = [scratch EXCEPT ![task[i].path] = @ \o WriteText(chunk)]
          /\ task' = [task EXCEPT ![i].chars = CharSet(chunk),
                                   ![i].pos = @ + Len(chunk)]
    /\ UNCHANGED <<envVars, mainVars, histVars, fs, runpc, files, output_file,
                   temp_dir, results, mergeIdx, success_count, failure_count,
                   all_chars, ret, attempts>>

\* Mutant: the scratch file is opened anew for every chunk.
WriteChunk_Truncates(i) ==
    /\ runpc = "dispatching"
    /\ i \in Running
    /\ LET chunk == ReadChunk(files[i], task[i].pos)
       IN /\ chunk # <<>>
          /\ scratch' = [scratch EXCEPT ![task[i].path] = WriteText(chunk)]
          /\ task' = [task EXCEPT ![i].chars = @ \cup CharSet(chunk),
                                   ![i].pos = @ + Len(chunk)]
    /\ UNCHANGED <<envVars, mainVars, histVars, fs, runpc, files, output_file,
                   temp_dir, results, mergeIdx, success_count, failure_count,
                   all_chars, ret, attempts>>

\* Lines 35-40: one non-empty chunk is written and folded into chars.
WriteChunk(i) ==
    /\ runpc = "dispatching"
    /\ i \in Running
    /\ LET chunk == ReadChunk(files[i], task[i].pos)
       IN /\ chunk # <<>>
          /\ scratch' = [scratch EXCEPT ![task[i].path] = @ \o WriteText(chunk)]
          /\ task' = [task EXCEPT ![i].chars = @ \cup CharSet(chunk),
                                   ![i].pos = @ + Len(chunk)]
    /\ UNCHANGED <<envVars, mainVars, histVars, fs, runpc, files, output_file,
                   temp_dir, results, mergeIdx, success_count, failure_count,
                   all_chars, ret, attempts>>

\* Lines 36, 42: the read returns "", the loop ends, both files close.
FinishFile(i) ==
    /\ runpc = "dispatching"
    /\ i \in Running
    /\ ReadChunk(files[i], task[i].pos) = <<>>
    /\ task' = [task EXCEPT ![i] = Returned(@, "ok", SuccessResult(@))]
    /\ UNCHANGED <<envVars, mainVars, histVars, fs, runpc, files, output_file,
                   temp_dir, scratch, results, mergeIdx, success_count,
                   failure_count, all_chars, ret, attempts>>

\* Mutant: process_file has no except branch; the exception reaches the
\* collecting loop and leaves the run.
FailFile_Raises(i) ==
    /\ runpc = "dispatching"
    /\ i \in Running
    /\ runpc' = "aborted"
    /\ temp_dir' = FALSE
    /\ scratch' = EmptyDir
    /\ task' = [j \in 1..N |-> PendingTask]
    /\ results' = <<>>
    /\ mergeIdx' = 0
    /\ success_count' = 0
    /\ failure_count' = 0
    /\ all_chars' = {}
    /\ UNCHANGED <<envVars, mainVars, histVars, fs, files, output_file, ret,
                   attempts>>

\* Lines 43-46: a read or a write raises; the scratch file stays as it is.
FailFile(i) ==
    /\ runpc = "dispatching"
    /\ i \in Running
    /\ task' = [task EXCEPT ![i] = Returned(@, "failed", FailureResult(@))]
    /\ UNCHANGED <<envVars, mainVars, histVars, fs, runpc, files, output_file,
                   temp_dir, scratch, results, mergeIdx, success_count,
                   failure_count, all_chars, ret, attempts>>

-----------------------------------------------------------------------------
(* process_files_in_parallel *)

\* Mutant: every run appends to the train output.
EnterRun_TrainOutput(fl, out) ==
    /\ runpc' = "dispatching"
    /\ files' = fl
    /\ output_file' = output_file_train
    /\ temp_dir' = TRUE
    /\ scratch' = EmptyDir
    /\ task' = [i \in 1..Len(fl) |-> PendingTask]
    /\ results' = <<>>
    /\ mergeIdx' = 0
    /\ success_count' = 0
    /\ failure_count' = 0
    /\ all_chars' = {}
    /\ attempts' = [i \in 1..Len(fl) |-> 0]

\* Lines 52-60: the locals, the TemporaryDirectory, the pool and its tasks.
EnterRun(fl, out) ==
    /\ runpc' = "dispatching"
    /\ files' = fl
    /\ output_file' = out
    /\ temp_dir' = TRUE
    /\ scratch' = EmptyDir
    /\ task' = [i \in 1..Len(fl) |-> PendingTask]
    /\ results' = <<>>
    /\ mergeIdx' = 0
    /\ success_count' = 0
    /\ failure_count' = 0
    /\ all_chars' = {}
    /\ attempts' = [i \in 1..Len(fl) |-> 0]

\* Mutant: the results are gathered as they complete (as_completed).
Collect_AsCompleted ==
    /\ runpc = "dispatching"
    /\ Len(results) < N
    /\ \E i \in Finished :
          LET r == task[i].result
              failedSeen == {k \in 1..Len(results) : results[k][1] = None}
              failedDone == {j \in Finished : task[j].st = "failed"}
          IN /\ IF r[1] # None
                THEN \A k \in 1..Len(results) : results[k] # r
                ELSE Cardinality(failedSeen) < Cardinality(failedDone)
             /\ results' = Append(results, r)
    /\ UNCHANGED <<envVars, mainVars, histVars, fs, runpc, files, output_file,
                   temp_dir, scratch, task, mergeIdx, success_count,
                   failure_count, all_chars, ret, attempts>>

\* Mutant: the loop takes what a task has so far without waiting for it.
Collect_NoWait ==
    /\ runpc = "dispatching"
    /\ Len(results) < N
    /\ Len(results) + 1 \in Finished \cup Running
    /\ LET t == task[Len(results) + 1]
       IN results' = Append(results, IF t.st = "running"
                                     THEN <<t.path, t.chars>> ELSE t.result)
    /\ UNCHANGED <<envVars, mainVars, histVars, fs, runpc, files, output_file,
                   temp_dir, scratch, task, mergeIdx, success_count,
                   failure_count, all_chars, ret, attempts>>

\* Lines 61-62: executor.map yields the results in submission order.
Collect ==
    /\ runpc = "dispatching"
    /\ Len(results) < N
    /\ Len(results) + 1 \in Finished
    /\ results' = Append(results, task[Len(results) + 1].result)
    /\ UNCHANGED <<envVars, mainVars, histVars, fs, runpc, files, output_file,
                   temp_dir, scratch, task, mergeIdx, success_count,
                   failure_count, all_chars, ret, attempts>>

\* Lines 63-65: the pool shuts down and the output file opens for append.
BeginMerge ==
    /\ runpc = "dispatching"
    /\ Len(results) = N
    /\ runpc' = "merging"
    /\ fs' = IF output_file \in DOMAIN fs THEN fs
             ELSE PutFile(fs, output_file, <<>>)
    /\ UNCHANGED <<envVars, mainVars, histVars, files, output_file, temp_dir,
                   scratch, task, results, mergeIdx, success_count,
                   failure_count, all_chars, ret, attempts>>

\* if temp_path and os.path.exists(temp_path)
IsSuccess(r) == r[1] # None /\ r[1] \in DOMAIN scratch

\* Mutant: os.remove(temp_path) after the copy.
MergeStep_DeletesScratch ==
    /\ runpc = "merging"
    /\ mergeIdx < N
    /\ LET r == results[mergeIdx + 1]
       IN IF IsSuccess(r)
          THEN /\ success_count' = success_count + 1
               /\ fs' = [fs EXCEPT ![output_file] =
                           @ \o WriteText(ReadText(scratch[r[1]]))]
               /\ all_chars' = IF collect_vocab THEN all_chars \cup r[2]
                                ELSE all_chars
               /\ scratch' = [p \in DOMAIN scratch \ {r[1]} |-> scratch[p]]
               /\ UNCHANGED failure_count
          ELSE /\ failure_count' = failure_count + 1
               /\ UNCHANGED <<success_count, fs, all_chars, scratch>>
    /\ mergeIdx' = mergeIdx + 1
    /\ UNCHANGED <<envVars, mainVars, histVars, runpc, files, output_file,
                   temp_dir, task, results, ret, attempts>>

\* Lines 66-76: one iteration of the merge loop.
MergeStep ==
    /\ runpc = "merging"
    /\ mergeIdx < N
    /\ LET r == results[mergeIdx + 1]
       IN IF IsSuccess(r)
          THEN /\ success_count' = success_count + 1
               /\ fs' = [fs EXCEPT ![output_file] =
                           @ \o WriteText(ReadText(scratch[r[1]]))]
               /\ all_chars' = IF collect_vocab THEN all_chars \cup r[2]
                                ELSE all_chars
               /\ UNCHANGED failure_count
          ELSE /\ failure_count' = failure_count + 1
               /\ UNCHANGED <<success_count, fs, all_chars>>
    /\ mergeIdx' = mergeIdx + 1
    /\ UNCHANGED <<envVars, mainVars, histVars, runpc, files, output_file,
                   temp_dir, scratch, task, results, ret, attempts>>

\* Which positions of the run ended in success.
Outcomes == [i \in 1..N |-> task[i].st = "ok"]

\* Mutant: the scratch directory is made with mkdtemp and never removed.
EndRun_KeepsScratch ==
    /\ runpc = "merging"
    /\ mergeIdx = N
    /\ runpc' = "done"
    /\ ret' = IF collect_vocab THEN all_chars ELSE None
    /\ okTrain' = IF output_file = output_file_train THEN Outcomes ELSE okTrain
    /\ okVal' = IF output_file = output_file_val THEN Outcomes ELSE okVal
    /\ UNCHANGED <<envVars, mainVars, first, fs, files, output_file, task,
                   results, mergeIdx, success_count, failure_count, all_chars,
                   attempts, temp_dir, scratch>>

\* Lines 76-81: the output closes, the TemporaryDirectory is removed, the
\* counts are reported and the character set is returned.
EndRun ==
    /\ runpc = "merging"
    /\ mergeIdx = N
    /\ runpc' = "done"
    /\ temp_dir' = FALSE
    /\ scratch' = EmptyDir
    /\ ret' = IF collect_vocab THEN all_chars ELSE None
    /\ okTrain' = IF output_file = output_file_train THEN Outcomes ELSE okTrain
    /\ okVal' = IF output_file = output_file_val THEN Outcomes ELSE okVal
    /\ UNCHANGED <<envVars, mainVars, first, fs, files, output_file, task,
                   results, mergeIdx, success_count, failure_count, all_chars,
                   attempts>>

\* Mutant: the scratch directory is removed on the normal path only.
Unwind_KeepsScratch ==
    /\ runpc' = "aborted"
    /\ UNCHANGED <<temp_dir, scratch>>
    /\ task' = [i \in 1..N |-> PendingTask]
    /\ results' = <<>>
    /\ mergeIdx' = 0
    /\ success_count' = 0
    /\ failure_count' = 0
    /\ all_chars' = {}

\* An exception leaves the with-blocks of lines 56-76: the pool shuts down,
\* the TemporaryDirectory is removed and the locals of the call are dropped.
Unwind ==
    /\ runpc' = "aborted"
    /\ temp_dir' = FALSE
    /\ scratch' = EmptyDir
    /\ task' = [i \in 1..N |-> PendingTask]
    /\ results' = <<>>
    /\ mergeIdx' = 0
    /\ success_count' = 0
    /\ failure_count' = 0
    /\ all_chars' = {}

\* Lines 56-62: a pool worker dies (BrokenProcessPool) while the results are
\* collected; the exception leaves both with-blocks.
AbortCollect ==
    /\ runpc = "dispatching"
    /\ Running # {}
    /\ Unwind
    /\ UNCHANGED <<envVars, mainVars, histVars, fs, files, output_file, ret,
                   attempts>>

\* Lines 56, 65-70: the copy into the output file raises (OSError); the
\* exception leaves both with-blocks.
AbortMerge ==
    /\ runpc = "merging"
    /\ mergeIdx < N
    /\ Unwind
    /\ UNCHANGED <<envVars, mainVars, histVars, fs, files, output_file, ret,
                   attempts>>

RunStep ==
    \/ \E w \in Workers, rnd \in Rands : StartWorker(w, rnd)
    \/ \E w \in Workers : StartWorkerOpenFails(w)
    \/ \E i \in 1..N : WriteChunk(i)
    \/ \E i \in 1..N : FinishFile(i)
    \/ \E i \in 1..N : FailFile(i)
    \/ Collect
    \/ BeginMerge
    \/ MergeStep
    \/ EndRun
    \/ AbortCollect
    \/ AbortMerge


\* Shard f holds Texts[..], rotated by shift.
Layout(fileset, shift) ==
    [f \in fileset |-> Texts[((f + shift) % Len(Texts)) + 1]]

-----------------------------------------------------------------------------
(* main *)

\* int(total_files * 0.9) and int(len(files) * 0.01)
SplitIndex(total) == (total * split_pct) \div 100
SampleSize(len) == Max(1, (len * sample_pct) \div 100)

\* random.sample(population, k): k positions without repetition, any order.
Sample(population, k) ==
    {[j \in 1..k |-> population[pick[j]]] :
        pick \in {q \in [1..k -> 1..Len(population)] :
                      \A a, b \in 1..k : a # b => q[a] # q[b]}}

\* sorted(all_chars)
RECURSIVE Sorted(_)
Sorted(S) ==
    IF S = {} THEN <<>>
    ELSE LET m == CHOOSE x \in S : \A y \in S : x <= y
         IN <<m>> \o Sorted(S \ {m})

\* for char in sorted(all_chars): vfile.write(char + '\n')
RECURSIVE VocabLines(_)
VocabLines(cs) ==
    IF cs = <<>> THEN <<>>
    ELSE WriteText(<<Head(cs), LF>>) \o VocabLines(Tail(cs))

\* train_chars.union(val_chars) if train_chars and val_chars
\*                             else train_chars or val_chars
CombineChars(tc, vc) ==
    IF tc # {} /\ vc # {} THEN tc \cup vc
    ELSE IF tc # {} THEN tc ELSE vc

\* Lines 130-136: the vocabulary file after the two runs.
WriteVocab(f, tc, vc) ==
    IF tc # {} \/ vc # {}
    THEN PutFile(f, vocab_file, VocabLines(Sorted(CombineChars(tc, vc))))
    ELSE f

files_train == SubSeq(dirFiles, 1, SplitIndex(Len(dirFiles)))
\* Mutant: files[split_index - 1:], one shard shared with the train part.
files_val_Overlapping ==
    SubSeq(dirFiles, Max(1, SplitIndex(Len(dirFiles))), Len(dirFiles))

files_val   == SubSeq(dirFiles, SplitIndex(Len(dirFiles)) + 1, Len(dirFiles))

NoSnapshot == [set |-> FALSE, train |-> <<>>, val |-> <<>>, okTrain |-> <<>>,
               okVal |-> <<>>, outTrain |-> <<>>, outVal |-> <<>>]

MayStartMain ==
    /\ mainpc \in {"idle", "returned", "crashed", "done"}
    /\ execs < MaxExec

runVars == <<runpc, files, output_file, temp_dir, scratch, task, results,
             mergeIdx, success_count, failure_count, all_chars, attempts>>

\* Mutant: the outputs are opened without being emptied.
Truncate_KeepsContent(f, names) ==
    [x \in DOMAIN f \cup names |-> IF x \in DOMAIN f THEN f[x] ELSE <<>>]

\* with open(file_path, 'w'): the file is created or emptied.
Truncate(f, names) == [x \in DOMAIN f \cup names |->
                         IF x \in names THEN <<>> ELSE f[x]]

\* Lines 90-93: the source directory does not exist.
MainMissingDir ==
    /\ MayStartMain
    /\ ~dirExists
    /\ mainpc' = "returned"
    /\ execs' = execs + 1
    /\ UNCHANGED <<envVars, histVars, fs, files_train_sampled,
                   files_val_sampled, train_chars, val_chars, runVars, ret>>

\* Mutant: the outputs are emptied before the shard count is looked at.
MainNoShards_AfterTruncate ==
    /\ MayStartMain
    /\ dirExists
    /\ Len(dirFiles) = 0
    /\ mainpc' = "returned"
    /\ execs' = execs + 1
    /\ fs' = Truncate(fs, {output_file_train, output_file_val})
    /\ UNCHANGED <<envVars, histVars, files_train_sampled,
                   files_val_sampled, train_chars, val_chars, runVars, ret>>

\* Lines 96-103: the directory holds no .xz file.
MainNoShards ==
    /\ MayStartMain
    /\ dirExists
    /\ Len(dirFiles) = 0
    /\ mainpc' = "returned"
    /\ execs' = execs + 1
    /\ UNCHANGED <<envVars, histVars, fs, files_train_sampled,
                   files_val_sampled, train_chars, val_chars, runVars, ret>>

\* Lines 106-113: random.sample raises ValueError when the sample is larger
\* than the population; main ends with the exception.
MainSampleFails ==
    /\ MayStartMain
    /\ dirExists
    /\ Len(dirFiles) # 0
    /\ \/ SampleSize(Len(files_train)) > Len(files_train)
       \/ SampleSize(Len(files_val)) > Len(files_val)
    /\ mainpc' = "crashed"
    /\ execs' = execs + 1
    /\ UNCHANGED <<envVars, histVars, fs, files_train_sampled,
                   files_val_sampled, train_chars, val_chars, runVars, ret>>

\* Lines 106-124: split, sample, truncate both outputs, enter the train run.
MainStartRuns ==
    /\ MayStartMain
    /\ dirExists
    /\ Len(dirFiles) # 0
    /\ SampleSize(Len(files_train)) <= Len(files_train)
    /\ SampleSize(Len(files_val)) <= Len(files_val)
    /\ \E ts \in Sample(files_train, SampleSize(Len(files_train))),
          vs \in Sample(files_val, SampleSize(Len(files_val))) :
          /\ files_train_sampled' = ts
          /\ files_val_sampled' = vs
          /\ EnterRun(ts, output_file_train)
    /\ fs' = Truncate(fs, {output_file_train, output_file_val})
    /\ mainpc' = "train"
    /\ execs' = execs + 1
    /\ UNCHANGED <<envVars, histVars, train_chars, val_chars, ret>>

\* Lines 124-127: the train run has returned; enter the validation run.
MainAfterTrain ==
    /\ mainpc = "train"
    /\ runpc = "done"
    /\ train_chars' = ret
    /\ EnterRun(files_val_sampled, output_file_val)
    /\ mainpc' = "val"
    /\ UNCHANGED <<envVars, histVars, fs, execs, files_train_sampled,
                   files_val_sampled, val_chars, ret>>

\* Lines 127-139: the validation run has returned; write the vocabulary.
MainFinish ==
    /\ mainpc = "val"
    /\ runpc = "done"
    /\ val_chars' = ret
    /\ fs' = WriteVocab(fs, train_chars, ret)
    /\ mainpc' = "done"
    /\ first' = IF execs = 1
                THEN [set |-> TRUE, train |-> files_train_sampled, val |-> files_val_sampled,
                      okTrain |-> okTrain, okVal |-> okVal,
                      outTrain |-> fs[output_file_train],
                      outVal |-> fs[output_file_val]]
                ELSE first
    /\ UNCHANGED <<envVars, okTrain, okVal, execs, files_train_sampled,
                   files_val_sampled, train_chars, runVars, ret>>

\* Lines 124, 127: an exception raised inside a run ends main.
MainRunRaises ==
    /\ mainpc \in {"train", "val"}
    /\ runpc = "aborted"
    /\ mainpc' = "crashed"
    /\ UNCHANGED <<envVars, histVars, fs, execs, files_train_sampled,
                   files_val_sampled, train_chars, val_chars, runVars, ret>>

Init ==
    /\ dirExists \in BOOLEAN
    /\ \E n \in 0..MaxFiles :
          /\ ~dirExists => n = 0
          /\ dirFiles = [i \in 1..n |-> i]
          /\ shardRaw \in [1..n -> {Texts[k] : k \in 1..Len(Texts)}]
    /\ chunk_size = ChunkLen
    /\ fs \in {EmptyDir,
                [x \in {output_file_train, output_file_val, vocab_file} |-> Stale]}
    /\ mainpc = "idle"
    /\ execs = 0
    /\ files_train_sampled = <<>>
    /\ files_val_sampled = <<>>
    /\ train_chars = {}
    /\ val_chars = {}
    /\ runpc = "idle"
    /\ files = <<>>
    /\ output_file = output_file_train
    /\ temp_dir = FALSE
    /\ scratch = EmptyDir
    /\ task = <<>>
    /\ results = <<>>
    /\ mergeIdx = 0
    /\ success_count = 0
    /\ failure_count = 0
    /\ all_chars = {}
    /\ ret = {}
    /\ attempts = <<>>
    /\ okTrain = <<>>
    /\ okVal = <<>>
    /\ first = NoSnapshot

Next ==
    \/ MainMissingDir
    \/ MainNoShards
    \/ MainSampleFails
    \/ MainStartRuns
    \/ MainAfterTrain
    \/ MainFinish
    \/ MainRunRaises
    \/ RunStep

Spec == Init /\ [][Next]_vars

-----------------------------------------------------------------------------
(* One run over a long shard list: main has entered the train run (line 124) *)
(* of a directory large enough for the 1% sample to hold n shards.           *)

\* main on entering the train run with the shards 1..n sampled.
RunEntry(n, shift, size) ==
    /\ dirFiles = [i \in 1..n |-> i]
    /\ shardRaw = Layout(1..n, shift)
    /\ chunk_size = size
    /\ files = [i \in 1..n |-> i]
    /\ files_train_sampled = [i \in 1..n |-> i]
    /\ task = [i \in 1..n |-> PendingTask]
    /\ attempts = [i \in 1..n |-> 0]
    /\ dirExists = TRUE
    /\ fs = (output_file_train :> <<>>) @@ (output_file_val :> <<>>)
    /\ mainpc = "train"
    /\ execs = 1
    /\ files_val_sampled = <<>>
    /\ train_chars = {}
    /\ val_chars = {}
    /\ runpc = "dispatching"
    /\ output_file = output_file_train
    /\ temp_dir = TRUE
    /\ scratch = EmptyDir
    /\ results = <<>>
    /\ mergeIdx = 0
    /\ success_count = 0
    /\ failure_count = 0
    /\ all_chars = {}
    /\ ret = {}
    /\ okTrain = <<>>
    /\ okVal = <<>>
    /\ first = NoSnapshot

InitRun ==
    \E n \in 1..MaxShards, shift \in 0..(Len(Texts) - 1) :
        /\ n <= Len(Texts) \/ shift = 0
        /\ RunEntry(n, shift, ChunkLen)

NextRun == RunStep

SpecRun == InitRun /\ [][NextRun]_vars

-----------------------------------------------------------------------------
(* One run in which nothing but shards fails, for every read size: no worker *)
(* process dies and the output file can be written.  Every worker and the   *)
(* collecting loop keep running, and every decode ends.                      *)

InitShards ==
    \E n \in 1..Len(Texts), shift \in 0..(Len(Texts) - 1),
       size \in 1..MaxChunk :
        RunEntry(n, shift, size)

NextShards ==
    \/ \E w \in Workers, rnd \in Rands : StartWorker(w, rnd)
    \/ \E w \in Workers : StartWorkerOpenFails(w)
    \/ \E i \in 1..N : WriteChunk(i)
    \/ \E i \in 1..N : FinishFile(i)
    \/ \E i \in 1..N : FailFile(i)
    \/ Collect
    \/ BeginMerge
    \/ MergeStep
    \/ EndRun

SpecShards == InitShards /\ [][NextShards]_vars /\ WF_vars(NextShards)

-----------------------------------------------------------------------------
(* What a run is expected to leave, from the shard list and the outcomes *)

Ok(i) == task[i].st = "ok"

\* Decoded text of the successful shards among the first k, in list order.
RECURSIVE ConcatOk(_)
ConcatOk(k) ==
    IF k = 0 THEN <<>>
    ELSE ConcatOk(k - 1) \o (IF Ok(k) THEN Decoded(files[k]) ELSE <<>>)

\* Characters of the successful shards of the run.
CharsOk == UNION {CharSet(Decoded(files[i])) : i \in {j \in 1..N : Ok(j)}}

MergeOver == runpc = "merging" /\ mergeIdx = N

\* The scratch file a failed shard left behind, if any.
PartialOf(i) == {p \in DOMAIN scratch : p[3] = files[i]}

\* C1: at every point of the merge and after it, the output file holds the
\* decoded text of the successful shards handled so far, in list order,
\* whatever order the workers finished in; the content is a function of the
\* list and the outcomes alone.
C1_SubmissionOrder ==
    runpc \in {"merging", "done"} => fs[output_file] = ConcatOk(mergeIdx)

\* A run over three shards or more with text on both sides of a failed shard.
C1_Witness ==
    /\ runpc = "done"
    /\ \E i, j, k \in 1..N :
          /\ i < j /\ j < k
          /\ Ok(i) /\ ~Ok(j) /\ Ok(k)
          /\ Decoded(files[i]) # <<>> /\ Decoded(files[k]) # <<>>
          /\ Decoded(files[i]) # Decoded(files[k])

\* C2: with K of the N shards failed, the run ends with N-K successes and K
\* failures counted and the output holds exactly the successful shards'
\* text in list order, nothing of a failed shard.
C2_FailureIsolation ==
    (MergeOver \/ runpc = "done") =>
        LET K == Cardinality({i \in 1..N : ~Ok(i)})
        IN /\ success_count = N - K
           /\ failure_count = K
           /\ fs[output_file] = ConcatOk(N)

\* A shard failed after a chunk was written, next to a shard that succeeded.
C2_Witness ==
    /\ MergeOver
    /\ \E i, j \in 1..N :
          /\ task[i].st = "failed"
          /\ \E p \in PartialOf(i) : scratch[p] # <<>>
          /\ Ok(j) /\ Decoded(files[j]) # <<>>

\* C3: the character set of a run is the union of the successful shards'
\* character sets; a failed shard adds nothing.
C3_CharsOfSuccessful ==
    /\ MergeOver => all_chars = CharsOk
    /\ runpc = "done" => ret = CharsOk

\* A failed shard had folded a character that no successful shard holds.
C3_Witness ==
    /\ MergeOver
    /\ all_chars # {}
    /\ \E i \in 1..N :
          /\ task[i].st = "failed"
          /\ \E p \in PartialOf(i) : ~(CharSet(scratch[p]) \subseteq all_chars)

\* Characters of the shards that decoded in the two runs of the execution.
VocabExpected ==
    UNION ({CharSet(Decoded(files_train_sampled[i])) :
               i \in {j \in 1..Len(okTrain) : okTrain[j]}}
           \cup {CharSet(Decoded(files_val_sampled[i])) :
               i \in {j \in 1..Len(okVal) : okVal[j]}})

\* What reading the vocabulary file gives (nothing when there is none).
VocabContent == IF vocab_file \in DOMAIN fs THEN fs[vocab_file] ELSE <<>>

\* C4: after an execution of main that went through both runs, the
\* vocabulary file holds the sorted characters of the shards that decoded
\* in that execution, one per line, and nothing else.
C4_VocabularyIsUnion ==
    mainpc = "done" => VocabContent = VocabLines(Sorted(VocabExpected))

SameAsFirst ==
    /\ first.set
    /\ files_train_sampled = first.train /\ files_val_sampled = first.val
    /\ okTrain = first.okTrain /\ okVal = first.okVal

\* C5: both output files are empty when the train run starts, and a later
\* execution with the samples and outcomes of the first leaves each output
\* file with the content the first execution left.
C5_RerunOverwrites ==
    /\ (mainpc = "train" /\ runpc = "dispatching") =>
          fs[output_file_train] = <<>> /\ fs[output_file_val] = <<>>
    /\ (mainpc = "done" /\ execs >= 2 /\ SameAsFirst) =>
          /\ fs[output_file_train] = first.outTrain
          /\ fs[output_file_val] = first.outVal

\* A second execution that wrote the same non-empty text again.
C5_Witness ==
    /\ mainpc = "done" /\ execs >= 2 /\ SameAsFirst
    /\ first.outTrain # <<>>
    /\ first.outVal # <<>>

\* C6: a step that ends main on a structural error (no directory, no shard)
\* changes no file and starts no run.
C6_StructuralErrorWritesNothing ==
    [][mainpc' = "returned" => (fs' = fs /\ UNCHANGED runVars)]_vars

\* main has returned on an empty directory with the three files in place.
C6_Witness ==
    /\ mainpc = "returned"
    /\ dirExists /\ dirFiles = <<>>
    /\ DOMAIN fs = {output_file_train, output_file_val, vocab_file}

\* C7: process_file is invoked at most once per list position, and once the
\* pool has been drained it has been invoked exactly once per position and
\* results holds exactly the result of each position, in order.
C7_ExactlyOnce ==
    /\ \A i \in 1..N : attempts[i] <= 1
    /\ Len(results) <= N
    /\ runpc \in {"merging", "done"} =>
          /\ \A i \in 1..N : attempts[i] = 1
          /\ results = [i \in 1..N |-> task[i].result]

\* A drained pool of more tasks than workers, one of them failed.
C7_Witness ==
    /\ runpc = "merging"
    /\ N > max_workers
    /\ \E i \in 1..N : task[i].st = "failed"

\* C8: at most max_workers invocations are in progress, no worker runs two
\* at once, and while a task is pending and fewer than max_workers are in
\* progress a worker can start it.
C8_BoundedPool ==
    /\ Cardinality(Running) <= max_workers
    /\ \A i, j \in Running : i # j => task[i].w # task[j].w
    /\ (runpc = "dispatching" /\ Pending # {}
            /\ Cardinality(Running) < max_workers) =>
          ENABLED (\E w \in Workers, rnd \in Rands : StartWorker(w, rnd))

\* Every worker busy while a task waits.
C8_Witness ==
    /\ Cardinality(Running) = max_workers
    /\ Pending # {}

\* C9: once a run has ended, normally or by an exception, its scratch
\* directory and every file in it are gone.
C9_ScratchRemoved ==
    runpc \in {"done", "aborted"} => ~temp_dir /\ scratch = EmptyDir

\* A run that had started shards ended by an exception.
C9_Witness ==
    /\ runpc = "aborted"
    /\ \E i \in 1..N : attempts[i] = 1

\* C10: once main is past the structural checks of a non-empty directory,
\* both sampled subsets are non-empty.
C10_BothSubsetsNonEmpty ==
    (dirExists /\ Len(dirFiles) >= 1 /\ mainpc # "idle") =>
        Len(files_train_sampled) >= 1 /\ Len(files_val_sampled) >= 1

\* C11 as claimed: when the merge starts, no scratch file of a failed shard
\* exists.
C11_PartialDiscarded ==
    runpc = "merging" =>
        \A i \in 1..N : task[i].st = "failed" => PartialOf(i) = {}

\* C11 as amended: a failed shard's result names no scratch file, so the
\* merge never reads what the shard left, and what it left is gone once
\* the run has ended.
C11_PartialLeftUntilTeardown ==
    /\ \A i \in 1..N : task[i].st = "failed" => task[i].result = <<None, {}>>
    /\ \A k \in 1..Len(results) : results[k][1] # None => Ok(k)
    /\ runpc \in {"done", "aborted"} => \A i \in 1..N : PartialOf(i) = {}

\* The merge starts with the partial scratch file of a failed shard in place.
C11_Witness ==
    /\ runpc = "merging"
    /\ mergeIdx = 0
    /\ \E i \in 1..N : task[i].st = "failed" /\ PartialOf(i) # {}

\* C12 as claimed: when the merge turns to result i+1, the scratch file of
\* every successful result up to i is deleted.
C12_DeletedAfterCopy ==
    runpc = "merging" =>
        \A k \in 1..mergeIdx : Ok(k) => results[k][1] \notin DOMAIN scratch

\* C12 as amended: during the merge every successful shard's scratch file,
\* copied or not, is still in the scratch directory with the shard's text;
\* the files go with the directory when the run ends.
C12_KeptUntilTeardown ==
    /\ runpc = "merging" =>
          \A k \in 1..N : Ok(k) =>
              /\ results[k][1] \in DOMAIN scratch
              /\ scratch[results[k][1]] = Decoded(files[k])
    /\ runpc = "done" => DOMAIN scratch = {}

\* The merge has copied a successful shard and turns to the next result.
C12_Witness ==
    /\ runpc = "merging"
    /\ mergeIdx >= 1 /\ mergeIdx < N
    /\ Ok(1) /\ Decoded(files[1]) # <<>>

\* C13: the output file changes only in the merge, with every task finished
\* and every result collected; no task is in progress during the merge, and
\* a step of a worker leaves the output file alone.
C13_MergeAfterAllCollected ==
    [][/\ fs' # fs =>
            /\ runpc = "merging"
            /\ Finished = 1..N
            /\ Len(results) = N
       /\ runpc = "merging" => Running = {} /\ Pending = {}
       /\ (task' # task /\ runpc' = "dispatching") => fs' = fs]_vars

\* The merge has appended text to the output of a run of several shards.
C13_Witness ==
    /\ runpc = "merging"
    /\ N >= 2
    /\ fs[output_file] # <<>>

\* C17: the scratch path a starting invocation opens is the path of no file
\* already in the scratch directory, where every earlier invocation of the
\* run that opened one has left it.
C17_FreshScratchPath ==
    [][\A i \in 1..N :
          (task[i].st = "pending" /\ task'[i].st = "running") =>
              task'[i].path \notin DOMAIN scratch]_vars

\* Two scratch files of one run carry the same pid and the same number.
C17_Witness ==
    \E p, q \in DOMAIN scratch : p # q /\ p[1] = q[1] /\ p[2] = q[2]

\* C14: whichever shards fail, the run moves only from dispatching to
\* merging and from merging to done, and it reaches done.
C14_RunReachesDone ==
    /\ [][runpc' # runpc =>
            <<runpc, runpc'>> \in {<<"dispatching", "merging">>,
                                   <<"merging", "done">>}]_vars
    /\ <>(runpc = "done")

\* A run of several shards, every one of them failed, is done.
C14_Witness ==
    /\ runpc = "done"
    /\ N >= 2
    /\ \A i \in 1..N : task[i].st = "failed"
    /\ failure_count = N

\* C15: for every read size, a shard that succeeded has left a scratch file
\* holding its whole decoded text in order, and has returned the set of the
\* characters of that text.
C15_ChunkSizeIndependent ==
    runpc \in {"dispatching", "merging"} =>
        \A i \in 1..N : Ok(i) =>
            /\ scratch[task[i].result[1]] = Decoded(files[i])
            /\ task[i].result[2] = CharSet(Decoded(files[i]))

\* A shard of three characters read one character at a time has succeeded.
C15_Witness ==
    /\ runpc = "dispatching"
    /\ chunk_size = 1
    /\ \E i \in 1..N : Ok(i) /\ Len(Decoded(files[i])) = 3

\* C16: while the train run is on, the validation output stays as it is;
\* while the validation run is on and when it returns, the train output and
\* train_chars stay as they are; a run changes no file but its own output,
\* and the vocabulary file changes only in the step that ends main.
C16_RunsShareNothing ==
    [][/\ (mainpc = "train" /\ mainpc' \in {"train", "val"}) =>
            fs'[output_file_val] = fs[output_file_val]
       /\ mainpc = "val" =>
            /\ fs'[output_file_train] = fs[output_file_train]
            /\ train_chars' = train_chars
       /\ (mainpc \in {"train", "val"} /\ mainpc' = mainpc) =>
            \A x \in DOMAIN fs : x # output_file => fs'[x] = fs[x]]_vars

\* Both runs of an execution wrote text, and not the same characters.
C16_Witness ==
    /\ mainpc = "done"
    /\ fs[output_file_train] # <<>>
    /\ fs[output_file_val] # <<>>
    /\ train_chars # {} /\ val_chars # {} /\ train_chars # val_chars

Range(sq) == {sq[k] : k \in 1..Len(sq)}
NoRepeat(sq) == \A a, b \in 1..Len(sq) : a # b => sq[a] # sq[b]

\* C18: once main has sampled, each sampled subset is free of repeats, the
\* train subset lies in the first int(0.9*n) shards, the validation subset
\* in the others, and the two share no shard; every sample random.sample
\* can draw from the train part, of any size, is free of repeats too.
C18_SamplesDisjoint ==
    /\ mainpc \in {"train", "val", "done"} =>
          /\ NoRepeat(files_train_sampled) /\ NoRepeat(files_val_sampled)
          /\ Range(files_train_sampled) \subseteq
                {dirFiles[k] : k \in 1..SplitIndex(Len(dirFiles))}
          /\ Range(files_val_sampled) \subseteq
                {dirFiles[k] : k \in (SplitIndex(Len(dirFiles)) + 1)..Len(dirFiles)}
          /\ Range(files_train_sampled) \cap Range(files_val_sampled) = {}
    /\ \A k \in 1..Len(files_train) :
          \A sq \in Sample(files_train, k) : NoRepeat(sq)

\* main has sampled from a train part of two shards or more.
C18_Witness ==
    /\ mainpc = "done"
    /\ Len(files_train) >= 2
    /\ files_train_sampled = <<files_train[2]>>

=============================================================================
